---- MODULE Spec2Model ----
(***************************************************************************)
(* QStately.js: a finite-state machine engine whose event handlers may     *)
(* return promises (Q).  The module models one machine built by            *)
(* Stately(statesObject, initialStateName): the state registry, the facade *)
(* with its chained event entry points, the lifecycle hooks, the observer  *)
(* list, and the event calls whose Q continuation has not run yet.         *)
(***************************************************************************)
EXTENDS Integers, Sequences, FiniteSets, TLC

VARIABLES
  statesObject,       \* the table given to Stately()
  initialStateName,   \* the second argument of Stately()
  machine,            \* "ok" once Stately() returned, else the error thrown
  stateStore,         \* the registry: key -> value
  stateMachine,       \* the facade's event entry points: event name -> chain
  hooks,              \* hook properties set on the facade: "onbeforego", ...
  currentState,       \* the value currentState refers to
  notificationStore,  \* the observer list
  callbacks,          \* the observers the caller has at hand to bind
  pending,            \* event calls waiting for the promise their handler returned
  queue,              \* Q's task queue: calls whose continuation is scheduled
  outcome             \* the call that returned or settled in the last step

vars == <<statesObject, initialStateName, machine, stateStore, stateMachine,
          hooks, currentState, notificationStore, callbacks, pending, queue,
          outcome>>

(***************************************************************************)
(* Bounds of the model.                                                    *)
(***************************************************************************)
MaxInFlight == 2    \* event calls whose result has not settled
MaxObservers == 2   \* observers the caller binds

(***************************************************************************)
(* JavaScript values.  Every value is a record [t, n, e]: t is the kind,   *)
(* n the identity (a string's text, a state object's registry key, the     *)
(* name property of a foreign object), e the elements of an array.         *)
(***************************************************************************)
Undefined == [t |-> "undefined", n |-> "", e |-> <<>>]
Null == [t |-> "null", n |-> "", e |-> <<>>]
Num == [t |-> "number", n |-> "7", e |-> <<>>]
Str(s) == [t |-> "string", n |-> s, e |-> <<>>]
StateObj(s) == [t |-> "state", n |-> s, e |-> <<>>]
PlainObj(s) == [t |-> "object", n |-> s, e |-> <<>>]
StoreFn(s) == [t |-> "function", n |-> s, e |-> <<>>]
StoreObj == [t |-> "store", n |-> "", e |-> <<>>]
FacadeObj == [t |-> "facade", n |-> "", e |-> <<>>]
Arr(es) == [t |-> "array", n |-> "", e |-> es]

\* typeof v
TypeOf(v) ==
  CASE v.t = "undefined" -> "undefined"
    [] v.t = "string" -> "string"
    [] v.t = "number" -> "number"
    [] v.t = "function" -> "function"
    [] OTHER -> "object"

\* Object.prototype.toString.call(v)
toString(v) ==
  CASE v.t \in {"state", "object", "store", "facade"} -> "[object Object]"
    [] v.t = "array" -> "[object Array]"
    [] v.t = "null" -> "[object Null]"
    [] v.t = "undefined" -> "[object Undefined]"
    [] v.t = "string" -> "[object String]"
    [] v.t = "number" -> "[object Number]"
    [] OTHER -> "[object Function]"

\* !!v
Truthy(v) ==
  CASE v.t \in {"undefined", "null"} -> FALSE
    [] v.t = "string" -> v.n # ""
    [] OTHER -> TRUE

\* reading a property of v throws a TypeError
NoProperties(v) == v.t \in {"undefined", "null"}

\* v.name, for a v that has properties
NameOf(v) ==
  IF v.t \in {"state", "function"} \/ (v.t = "object" /\ v.n # "")
  THEN Str(v.n) ELSE Undefined

\* v.name as it is passed to a hook or an observer
NameStr(v) == IF NameOf(v).t = "string" THEN NameOf(v).n ELSE "undefined"

Range(s) == {s[i] : i \in 1..Len(s)}

(***************************************************************************)
(* The inputs.  A table is a sequence of states in declared order; a state *)
(* is a sequence of handlers in declared order; a handler is a function    *)
(* (to |-> "") or a bare string naming the target state.                   *)
(***************************************************************************)
Fn(ev) == [event |-> ev, to |-> ""]
Bare(ev, target) == [event |-> ev, to |-> target]
State(s, hs) == [name |-> s, handlers |-> hs]

\* a table: its states, the values its handler functions return at once
\* (returns) and the values they return through a promise (promises)
Table(ss, rs, ps) == [kind |-> "object", yields |-> "", states |-> ss,
                      returns |-> rs, promises |-> ps]

\* a function that returns the table tbl when Stately() calls it
Factory(tbl) == [tbl EXCEPT !.kind = "function", !.yields = tbl.kind]

\* go is declared on both states, back on B only
Plain == <<State("A", <<Fn("go")>>),
           State("B", <<Bare("back", "A"), Fn("go")>>)>>

\* an event named like a member of the facade, a bare string naming no state
Shadow == <<State("A", <<Fn("go"), Fn("getMachineEvents")>>),
            State("B", <<Bare("back", "nowhere")>>)>>

Names == {Undefined, Str("A"), Str("B")}
Strays == {Str("nowhere"), Str("getMachineState"), Num, Null}
Objects == {StateObj("B"), StoreObj, PlainObj("A"), PlainObj("")}
Arrays == {Arr(<<>>), Arr(<<Str("B"), Num>>), Arr(<<StateObj("A")>>),
           Arr(<<Str("nowhere"), Num>>), Arr(<<StateObj("A"), Str("v")>>)}

\* the tables whose handlers name states or return nothing
NameTables == {Table(ss, Names, {Str("B"), Undefined}) : ss \in {Plain, Shadow}}

\* the tables whose handlers return values of the other shapes
ShapeTables == {
  Table(Plain, Strays, {Str("nowhere")}),
  Table(Plain, Objects, {}),
  Table(Plain, Arrays, {Arr(<<Str("B"), Num>>)})
}

\* the table of the runs with observers of every kind
ObserverTable == Table(Plain, {Str("B")}, {Str("B")})

InitialStateNames == {"undefined", "B"}

\* what else Stately() may be given as its table: a table without states, an
\* array, null, a function that returns an array, a function that returns a
\* table
EmptyTable == Table(<<>>, {}, {})
NotMappings == {[EmptyTable EXCEPT !.kind = "array"],
                [EmptyTable EXCEPT !.kind = "null"],
                Factory([EmptyTable EXCEPT !.kind = "array"])}
ConstructorInputs ==
  NotMappings \cup {EmptyTable, Factory(Table(Plain, {Str("B")}, {}))}

\* what else Stately() may be given as initialStateName: the name of no
\* state and the name of a method of the store
ConstructorNames == InitialStateNames \cup {"C", "getMachineState"}

\* the hook properties a caller sets on the facade, as [h, x] for h + x
Hook(h, x) == [h |-> h, x |-> x]
HookConfigs == {
  {},
  {Hook(h, "go") : h \in {"onbefore", "onafter"}}
    \cup {Hook(h, s) : h \in {"onenter", "onleave"}, s \in {"A", "B"}},
  {Hook("on", x) : x \in {"go", "A", "B"}}
}

\* the observers, by what each does when it is notified: cb1 returns, clr
\* calls unbind(), bnd calls bind(cb1), thr throws
Callbacks == {"cb1", "clr", "bnd", "thr"}

(***************************************************************************)
(* Stately(): compiling the table.                                         *)
(***************************************************************************)
StoreMethods == {"getMachineState", "setMachineState", "getMachineEvents"}
FacadeMembers == {"getMachineState", "getMachineEvents", "bind", "unbind"}

StateNames(tbl) == {tbl.states[i].name : i \in 1..Len(tbl.states)}

\* the registry after the loop over the table
CompileStore(tbl) ==
  [k \in StoreMethods \cup StateNames(tbl) |->
     IF k \in StateNames(tbl) THEN StateObj(k) ELSE StoreFn(k)]

\* state number i declares a handler for ev that compiles to a function
HasHandler(tbl, i, ev) ==
  \E j \in 1..Len(tbl.states[i].handlers) : tbl.states[i].handlers[j].event = ev

EventNames(tbl) ==
  UNION {{tbl.states[i].handlers[j].event :
            j \in 1..Len(tbl.states[i].handlers)} : i \in 1..Len(tbl.states)}

\* the entry points transition() wrapped around each other for event ev,
\* outermost (compiled last) first
RECURSIVE ChainOf(_, _, _)
ChainOf(tbl, ev, i) ==
  IF i = 0 THEN <<>>
  ELSE IF HasHandler(tbl, i, ev)
       THEN <<tbl.states[i].name>> \o ChainOf(tbl, ev, i - 1)
       ELSE ChainOf(tbl, ev, i - 1)

\* stateMachine[eventName] = transition(stateName, eventName, stateMachine[eventName]):
\* the innermost nextEvent is what the facade held under that name before
CompileFacade(tbl) ==
  [ev \in EventNames(tbl) |->
     [chain |-> ChainOf(tbl, ev, Len(tbl.states)),
      base |-> IF ev \in FacadeMembers THEN ev ELSE ""]]

\* stateStore[key]
StoreGet(store, key) == IF key \in DOMAIN store THEN store[key] ELSE Undefined

\* currentState when the constructor reaches its last line
InitialState(tbl, store, initName) ==
  IF StoreGet(store, initName).t # "undefined" THEN StoreGet(store, initName)
  ELSE IF Len(tbl.states) > 0 THEN store[tbl.states[1].name]
  ELSE Undefined

\* a call of an event: where it was issued and by which state's handler it
\* was taken, what the handler returned, and how the call ended
NoCall == [event |-> "", status |-> "", state |-> "", issuedIn |-> Undefined,
           alone |-> TRUE, deferred |-> FALSE, value |-> Undefined,
           result |-> Undefined, err |-> "", last |-> Undefined,
           next |-> Undefined, snapshot |-> <<>>, notified |-> <<>>,
           trace |-> <<>>]

\* statesObject after 'if (typeof statesObject === "function") statesObject =
\* statesObject()'
Yielded(input) ==
  IF input.kind = "function" THEN [input EXCEPT !.kind = input.yields] ELSE input

\* toString.call(statesObject) === '[object Object]'
IsMapping(input) ==
  toString([t |-> Yielded(input).kind, n |-> "", e |-> <<>>]) = "[object Object]"

\* the error Stately() throws for this table and initial state name ("" when
\* it returns the facade)
ConstructorError(input, initName) ==
  IF ~IsMapping(input) THEN "InvalidStateError"
  ELSE IF ~Truthy(InitialState(input, CompileStore(input), initName))
  THEN "InvalidStateError"
  ELSE ""

\* the call of Stately() itself, as the call that ended last
Returned == [NoCall EXCEPT !.event = "Stately", !.status = "returned",
                           !.result = FacadeObj]
Thrown(err) == [NoCall EXCEPT !.event = "Stately", !.status = "thrown",
                              !.err = err]

\* the machine as Stately() leaves it, or nothing but the error it threw
Constructed ==
  LET err == ConstructorError(statesObject, initialStateName)
  IN /\ machine = IF err = "" THEN "ok" ELSE err
     /\ stateStore = IF err = "" THEN CompileStore(statesObject) ELSE <<>>
     /\ stateMachine = IF err = "" THEN CompileFacade(statesObject) ELSE <<>>
     /\ currentState =
          IF err = "" THEN InitialState(statesObject, stateStore, initialStateName)
          ELSE Undefined
     /\ notificationStore = <<>>
     /\ pending = <<>>
     /\ queue = <<>>
     /\ outcome = IF err = "" THEN Returned ELSE Thrown(err)

\* the tables whose handlers name states, with one plain observer at hand
InitNames ==
  /\ statesObject \in NameTables
  /\ initialStateName \in InitialStateNames
  /\ hooks \in HookConfigs
  /\ callbacks = {"cb1"}
  /\ Constructed

\* the tables whose handlers return the other shapes, with one plain observer
InitShapes ==
  /\ statesObject \in ShapeTables
  /\ initialStateName = "undefined"
  /\ hooks \in HookConfigs
  /\ callbacks = {"cb1"}
  /\ Constructed

\* one table, with observers of every kind at hand
InitObservers ==
  /\ statesObject = ObserverTable
  /\ initialStateName = "undefined"
  /\ hooks = {}
  /\ callbacks = Callbacks
  /\ Constructed

\* the other things Stately() may be called with
InitConstructor ==
  /\ statesObject \in ConstructorInputs
  /\ initialStateName \in ConstructorNames
  /\ hooks = {}
  /\ callbacks = {"cb1"}
  /\ Constructed

Init == InitNames \/ InitShapes \/ InitObservers \/ InitConstructor

(***************************************************************************)
(* The observer list.                                                      *)
(***************************************************************************)
\* a bind that keeps one entry per callback
bindOnce(store, callback) ==
  IF callback # "" /\ callback \notin Range(store)
  THEN Append(store, callback) ELSE store

\* bind(callback); callback "" is a call without a callback
bind(store, callback) ==
  IF callback # "" THEN Append(store, callback) ELSE store

RemoveAt(s, i) == SubSeq(s, 1, i - 1) \o SubSeq(s, i + 1, Len(s))

\* the loop of unbind(callback): i runs from 0 to the length cached in l,
\* notificationStore[i] is element i + 1 here
RECURSIVE UnbindLoop(_, _, _, _)
UnbindLoop(store, callback, i, l) ==
  IF i >= l THEN store
  ELSE IF i + 1 <= Len(store) /\ store[i + 1] = callback
       THEN UnbindLoop(RemoveAt(store, i + 1), callback, i + 1, l)
       ELSE UnbindLoop(store, callback, i + 1, l)

unbind(store, callback) ==
  IF callback = "" THEN <<>> ELSE UnbindLoop(store, callback, 0, Len(store))

Bind(callback) ==
  /\ machine = "ok"
  /\ Len(notificationStore) < MaxObservers
  /\ notificationStore' = bind(notificationStore, callback)
  /\ outcome' = NoCall
  /\ UNCHANGED <<statesObject, initialStateName, machine, stateStore,
                 stateMachine, hooks, currentState, callbacks, pending, queue>>

Unbind(callback) ==
  /\ machine = "ok"
  /\ notificationStore' = unbind(notificationStore, callback)
  /\ outcome' = NoCall
  /\ UNCHANGED <<statesObject, initialStateName, machine, stateStore,
                 stateMachine, hooks, currentState, callbacks, pending, queue>>

(***************************************************************************)
(* Introspection.                                                          *)
(***************************************************************************)
getMachineState == NameStr(currentState)

\* the own function properties of currentState, in enumeration order
getMachineEvents ==
  IF currentState.t = "state"
  THEN LET i == CHOOSE k \in 1..Len(statesObject.states) :
                  statesObject.states[k].name = currentState.n
           hs == statesObject.states[i].handlers
       IN Arr([j \in 1..Len(hs) |-> Str(hs[j].event)])
  ELSE Arr(<<>>)

(***************************************************************************)
(* An event call: the function event() that transition() returns.          *)
(***************************************************************************)
\* a step of a call that a hook, a handler or an observer sees: kind k, the
\* hook property prefix or observer h, the arguments (e, f, t) and what
\* getMachineState() answers at that moment
Step(k, h, e, f, t) == [k |-> k, h |-> h, e |-> e, f |-> f, t |-> t,
                        cur |-> getMachineState]

\* a guard that lets every call through
GuardAlways(stateName) == TRUE

\* a guard that takes the state a call in flight is about to enter for the
\* current one
GuardAhead(stateName) ==
  LET cs == pending \o queue
  IN IF cs # <<>> /\ cs[Len(cs)].value.t = "string"
     THEN stateName = cs[Len(cs)].value.n
     ELSE StoreGet(stateStore, stateName) = currentState

\* the guard of event(): this entry point's state is the current one
Guard(stateName) == StoreGet(stateStore, stateName) = currentState

\* a chain in which the entry point compiled last hides the earlier ones
DispatchLast(chain) ==
  IF chain # <<>> /\ Guard(Head(chain)) THEN Head(chain) ELSE ""

\* the entry point of the chain that runs its handler: each one whose guard
\* fails hands the call to its nextEvent
RECURSIVE Dispatch(_)
Dispatch(chain) ==
  IF chain = <<>> THEN ""
  ELSE IF Guard(Head(chain)) THEN Head(chain)
  ELSE Dispatch(Tail(chain))

\* what the facade member that the innermost nextEvent refers to returns
\* when it is applied to the store without arguments
Builtin(base) ==
  CASE base = "getMachineState" -> Str(getMachineState)
    [] base = "getMachineEvents" -> getMachineEvents
    [] OTHER -> StoreObj

\* the value of a call that no entry point of the chain accepts
NoOpValue(entry) == IF entry.base # "" THEN Builtin(entry.base) ELSE FacadeObj

\* the declaration of ev on state stateName
HandlerOf(stateName, ev) ==
  LET i == CHOOSE k \in 1..Len(statesObject.states) :
             statesObject.states[k].name = stateName
      hs == statesObject.states[i].handlers
  IN hs[CHOOSE j \in 1..Len(hs) : hs[j].event = ev]

\* what the handler may return, at once (d false) or through a promise that
\* resolves later (d true); a bare string compiles to
\* function event() { return this[stateName]; }
HandlerResults(h) ==
  IF h.to # "" THEN {[v |-> StoreGet(stateStore, h.to), d |-> FALSE]}
  ELSE {[v |-> x, d |-> FALSE] : x \in statesObject.returns}
       \cup {[v |-> x, d |-> TRUE] : x \in statesObject.promises}

BeforeHook(ev) == IF Hook("onbefore", ev) \in hooks THEN "onbefore" ELSE ""

InFlight == Len(pending) + Len(queue)

\* the calls cs, now known to overlap another call
Overlapped(cs) == [i \in 1..Len(cs) |-> [cs[i] EXCEPT !.alone = FALSE]]

\* event(): the call is nobody's (every guard of the chain fails)
NoOp(ev) ==
  /\ outcome' = [NoCall EXCEPT !.event = ev, !.status = "noop",
                               !.issuedIn = currentState,
                               !.alone = (InFlight = 0),
                               !.result = NoOpValue(stateMachine[ev])]
  /\ notificationStore' =
       IF stateMachine[ev].base = "unbind" THEN <<>> ELSE notificationStore
  /\ UNCHANGED <<pending, queue>>

\* event(): the guard of stateName's entry point passes, the before hook and
\* the handler run and Q.when(...).then(...) is returned
Handle(ev, stateName) ==
  /\ InFlight < MaxInFlight
  /\ \E r \in HandlerResults(HandlerOf(stateName, ev)) :
       LET before == IF BeforeHook(ev) # ""
                     THEN <<Step("before", BeforeHook(ev), ev,
                                 NameStr(currentState), NameStr(currentState))>>
                     ELSE <<>>
           call == [NoCall EXCEPT
                      !.event = ev,
                      !.status = IF r.d THEN "deferred" ELSE "ready",
                      !.state = stateName,
                      !.issuedIn = currentState,
                      !.alone = (InFlight = 0),
                      !.deferred = r.d,
                      !.value = r.v,
                      !.trace = before \o <<Step("handler", "", ev, stateName, "")>>]
       IN /\ pending' = IF r.d THEN Append(Overlapped(pending), call)
                        ELSE Overlapped(pending)
          /\ queue' = IF r.d THEN Overlapped(queue)
                      ELSE Append(Overlapped(queue), call)
  /\ outcome' = NoCall
  /\ UNCHANGED notificationStore

Call(ev) ==
  /\ machine = "ok"
  /\ ev \in DOMAIN stateMachine
  /\ LET stateName == Dispatch(stateMachine[ev].chain)
     IN IF stateName = "" THEN NoOp(ev) ELSE Handle(ev, stateName)
  /\ UNCHANGED <<statesObject, initialStateName, machine, stateStore,
                 stateMachine, hooks, currentState, callbacks>>

\* the promise a handler returned resolves: Q schedules the continuation
DeferredResolve(i) ==
  /\ i \in 1..Len(pending)
  /\ queue' = Append(queue, [pending[i] EXCEPT !.status = "ready"])
  /\ pending' = RemoveAt(pending, i)
  /\ outcome' = NoCall
  /\ UNCHANGED <<statesObject, initialStateName, machine, stateStore,
                 stateMachine, hooks, currentState, notificationStore, callbacks>>

(***************************************************************************)
(* The continuation of an event call: .then(function (eventValue) {...}).  *)
(***************************************************************************)
\* a resolution that takes a returned string for "stay"
ResolveStay(eventValue) ==
  IF TypeOf(eventValue) \in {"undefined", "string"}
  THEN [nextState |-> currentState, eventValue |-> FacadeObj]
  ELSE [nextState |-> Undefined, eventValue |-> eventValue]

\* a resolution without the branch for undefined
ResolveNoStay(eventValue) ==
  IF TypeOf(eventValue) = "string"
  THEN [nextState |-> StoreGet(stateStore, eventValue.n), eventValue |-> FacadeObj]
  ELSE IF toString(eventValue) = "[object Object]"
  THEN [nextState |-> IF eventValue = StoreObj THEN currentState ELSE eventValue,
        eventValue |-> FacadeObj]
  ELSE IF toString(eventValue) = "[object Array]" /\ Len(eventValue.e) >= 1
  THEN [nextState |-> IF TypeOf(eventValue.e[1]) = "string"
                      THEN StoreGet(stateStore, eventValue.e[1].n)
                      ELSE eventValue.e[1],
        eventValue |-> IF Len(eventValue.e) >= 2 THEN eventValue.e[2] ELSE Undefined]
  ELSE [nextState |-> Undefined, eventValue |-> eventValue]

\* a resolution that gives every call the facade as its result
ResolveFacade(eventValue) ==
  IF TypeOf(eventValue) = "undefined"
  THEN [nextState |-> currentState, eventValue |-> FacadeObj]
  ELSE IF TypeOf(eventValue) = "string"
  THEN [nextState |-> StoreGet(stateStore, eventValue.n), eventValue |-> FacadeObj]
  ELSE IF toString(eventValue) = "[object Object]"
  THEN [nextState |-> IF eventValue = StoreObj THEN currentState ELSE eventValue,
        eventValue |-> FacadeObj]
  ELSE IF toString(eventValue) = "[object Array]" /\ Len(eventValue.e) >= 1
  THEN [nextState |-> IF TypeOf(eventValue.e[1]) = "string"
                      THEN StoreGet(stateStore, eventValue.e[1].n)
                      ELSE eventValue.e[1],
        eventValue |-> FacadeObj]
  ELSE [nextState |-> Undefined, eventValue |-> eventValue]

\* the transition a handler's value asks for: nextState and the value the
\* call resolves to; a value no branch matches leaves nextState undefined
Resolve(eventValue) ==
  IF TypeOf(eventValue) = "undefined"
  THEN [nextState |-> currentState, eventValue |-> FacadeObj]
  ELSE IF TypeOf(eventValue) = "string"
  THEN [nextState |-> StoreGet(stateStore, eventValue.n), eventValue |-> FacadeObj]
  ELSE IF toString(eventValue) = "[object Object]"
  THEN [nextState |-> IF eventValue = StoreObj THEN currentState ELSE eventValue,
        eventValue |-> FacadeObj]
  ELSE IF toString(eventValue) = "[object Array]" /\ Len(eventValue.e) >= 1
  THEN [nextState |-> IF TypeOf(eventValue.e[1]) = "string"
                      THEN StoreGet(stateStore, eventValue.e[1].n)
                      ELSE eventValue.e[1],
        eventValue |-> IF Len(eventValue.e) >= 2 THEN eventValue.e[2] ELSE Undefined]
  ELSE [nextState |-> Undefined, eventValue |-> eventValue]

\* stateMachine['onafter' + eventName] || stateMachine['on' + eventName]
AfterHook(ev) ==
  IF Hook("onafter", ev) \in hooks THEN "onafter"
  ELSE IF Hook("on", ev) \in hooks THEN "on" ELSE ""

\* stateMachine['onenter' + name] || stateMachine['on' + name]
EnterHook(name) ==
  IF Hook("onenter", name) \in hooks THEN "onenter"
  ELSE IF Hook("on", name) \in hooks THEN "on" ELSE ""

LeaveHook(name) == IF Hook("onleave", name) \in hooks THEN "onleave" ELSE ""

\* what an observer does to the observer list while it is notified
CallbackEffect(callback, store) ==
  CASE callback = "unb" -> unbind(store, "cb1")
    [] callback = "clr" -> unbind(store, "")
    [] callback = "bnd" -> bind(store, "cb1")
    [] OTHER -> store

\* a notify() that walks the live list
NotificationsLive(copy, store) == store

\* the list notify() walks: the copy taken by slice(), not the live list
Notifications(copy, store) == copy

\* a notify() that catches what an observer throws and goes on
RECURSIVE NotifyLoopCatch(_, _, _, _, _)
NotifyLoopCatch(copy, i, l, store, done) ==
  IF i >= l \/ i + 1 > Len(Notifications(copy, store))
  THEN [store |-> store, notified |-> done, thrown |-> FALSE]
  ELSE LET callback == Notifications(copy, store)[i + 1]
       IN NotifyLoopCatch(copy, i + 1, l, CallbackEffect(callback, store),
                          Append(done, callback))

\* notify(): observer number i of the l observers of the copy is called;
\* an observer that throws ends the loop
RECURSIVE NotifyLoop(_, _, _, _, _)
NotifyLoop(copy, i, l, store, done) ==
  IF i >= l \/ i + 1 > Len(Notifications(copy, store))
  THEN [store |-> store, notified |-> done, thrown |-> FALSE]
  ELSE LET callback == Notifications(copy, store)[i + 1]
       IN IF callback = "thr"
          THEN [store |-> store, notified |-> Append(done, callback), thrown |-> TRUE]
          ELSE NotifyLoop(copy, i + 1, l, CallbackEffect(callback, store),
                          Append(done, callback))

notify(store) == NotifyLoop(store, 0, Len(store), store, <<>>)

\* nextState is a value setMachineState() rejects
Invalid(nextState) ==
  \/ ~Truthy(nextState)
  \/ ~Truthy(NameOf(nextState))
  \/ ~Truthy(StoreGet(stateStore, NameOf(nextState).n))

\* the hooks in the order leave, enter
StateHooksLeaveFirst(eventName, lastState, nextState) ==
  LET f == NameStr(lastState)
      t == NameStr(nextState)
      S(k, h) == [k |-> k, h |-> h, e |-> eventName, f |-> f, t |-> t, cur |-> t]
  IN <<S("commit", "")>>
     \o (IF LeaveHook(f) # "" THEN <<S("leave", LeaveHook(f))>> ELSE <<>>)
     \o (IF EnterHook(t) # "" THEN <<S("enter", EnterHook(t))>> ELSE <<>>)

\* the hooks setMachineState() calls after it has set currentState, in the
\* order it calls them; each sees nextState as the current state
StateHooks(eventName, lastState, nextState) ==
  LET f == NameStr(lastState)
      t == NameStr(nextState)
      S(k, h) == [k |-> k, h |-> h, e |-> eventName, f |-> f, t |-> t, cur |-> t]
  IN <<S("commit", "")>>
     \o (IF EnterHook(t) # "" THEN <<S("enter", EnterHook(t))>> ELSE <<>>)
     \o (IF LeaveHook(f) # "" THEN <<S("leave", LeaveHook(f))>> ELSE <<>>)

\* a setMachineState() that notifies the observers before it calls the hooks
setMachineStateNotifyFirst(nextState0, eventName) ==
  LET lastState == currentState
      nextState == IF TypeOf(nextState0) = "string"
                   THEN StoreGet(stateStore, nextState0.n) ELSE nextState0
  IN IF Invalid(nextState)
     THEN [err |-> "InvalidStateError", currentState |-> currentState,
           store |-> notificationStore, snapshot |-> <<>>, notified |-> <<>>,
           trace |-> <<>>]
     ELSE LET n == notify(notificationStore)
              f == NameStr(lastState)
              t == NameStr(nextState)
          IN [err |-> IF n.thrown THEN "ObserverError" ELSE "",
              currentState |-> nextState,
              store |-> n.store,
              snapshot |-> notificationStore,
              notified |-> n.notified,
              trace |-> [j \in 1..Len(n.notified) |->
                              [k |-> "notify", h |-> n.notified[j],
                               e |-> eventName, f |-> f, t |-> t, cur |-> t]]
                        \o StateHooks(eventName, lastState, nextState)]

\* a setMachineState() that does nothing when the state does not change
setMachineStateSkipSame(nextState0, eventName) ==
  LET lastState == currentState
      nextState == IF TypeOf(nextState0) = "string"
                   THEN StoreGet(stateStore, nextState0.n) ELSE nextState0
  IN IF Invalid(nextState)
     THEN [err |-> "InvalidStateError", currentState |-> currentState,
           store |-> notificationStore, snapshot |-> <<>>, notified |-> <<>>,
           trace |-> <<>>]
     ELSE IF nextState = lastState
     THEN [err |-> "", currentState |-> currentState,
           store |-> notificationStore, snapshot |-> <<>>, notified |-> <<>>,
           trace |-> <<>>]
     ELSE LET n == notify(notificationStore)
              f == NameStr(lastState)
              t == NameStr(nextState)
          IN [err |-> IF n.thrown THEN "ObserverError" ELSE "",
              currentState |-> nextState,
              store |-> n.store,
              snapshot |-> notificationStore,
              notified |-> n.notified,
              trace |-> StateHooks(eventName, lastState, nextState)
                        \o [j \in 1..Len(n.notified) |->
                              [k |-> "notify", h |-> n.notified[j],
                               e |-> eventName, f |-> f, t |-> t, cur |-> t]]]

\* setMachineState(nextState, eventName): the state, the observer list and
\* the steps it leaves behind, or the error it throws
setMachineState(nextState0, eventName) ==
  LET lastState == currentState
      nextState == IF TypeOf(nextState0) = "string"
                   THEN StoreGet(stateStore, nextState0.n) ELSE nextState0
  IN IF Invalid(nextState)
     THEN [err |-> "InvalidStateError", currentState |-> currentState,
           store |-> notificationStore, snapshot |-> <<>>, notified |-> <<>>,
           trace |-> <<>>]
     ELSE LET n == notify(notificationStore)
              f == NameStr(lastState)
              t == NameStr(nextState)
          IN [err |-> IF n.thrown THEN "ObserverError" ELSE "",
              currentState |-> nextState,
              store |-> n.store,
              snapshot |-> notificationStore,
              notified |-> n.notified,
              trace |-> StateHooks(eventName, lastState, nextState)
                        \o [j \in 1..Len(n.notified) |->
                              [k |-> "notify", h |-> n.notified[j],
                               e |-> eventName, f |-> f, t |-> t, cur |-> t]]]

\* a continuation whose after hook is told the state the call was issued in
ContinuationIssued(c) ==
  LET r == Resolve(c.value)
      after == AfterHook(c.event)
  IN IF after # "" /\ NoProperties(r.nextState)
     THEN [call |-> [c EXCEPT !.status = "rejected", !.err = "TypeError",
                              !.last = currentState, !.next = currentState],
           currentState |-> currentState, store |-> notificationStore]
     ELSE LET s == setMachineState(r.nextState, c.event)
              hook == IF after # ""
                      THEN <<Step("after", after, c.event, NameStr(c.issuedIn),
                                  NameStr(r.nextState))>>
                      ELSE <<>>
          IN [call |-> [c EXCEPT
                          !.status = IF s.err = "" THEN "fulfilled" ELSE "rejected",
                          !.err = s.err,
                          !.result = IF s.err = "" THEN r.eventValue ELSE Undefined,
                          !.last = currentState,
                          !.next = s.currentState,
                          !.snapshot = s.snapshot,
                          !.notified = s.notified,
                          !.trace = c.trace \o hook \o s.trace],
              currentState |-> s.currentState, store |-> s.store]

\* the function given to then(), run for call c: how the call ends, and the
\* state and the observer list it leaves
Continuation(c) ==
  LET r == Resolve(c.value)
      after == AfterHook(c.event)
  IN IF after # "" /\ NoProperties(r.nextState)
     THEN \* nextState.name throws before the hook is called
          [call |-> [c EXCEPT !.status = "rejected", !.err = "TypeError",
                              !.last = currentState, !.next = currentState],
           currentState |-> currentState, store |-> notificationStore]
     ELSE LET s == setMachineState(r.nextState, c.event)
              hook == IF after # ""
                      THEN <<Step("after", after, c.event, NameStr(currentState),
                                  NameStr(r.nextState))>>
                      ELSE <<>>
          IN [call |-> [c EXCEPT
                          !.status = IF s.err = "" THEN "fulfilled" ELSE "rejected",
                          !.err = s.err,
                          !.result = IF s.err = "" THEN r.eventValue ELSE Undefined,
                          !.last = currentState,
                          !.next = s.currentState,
                          !.snapshot = s.snapshot,
                          !.notified = s.notified,
                          !.trace = c.trace \o hook \o s.trace],
              currentState |-> s.currentState, store |-> s.store]

\* Q runs the continuation of the call at the head of its queue
Settle ==
  /\ queue # <<>>
  /\ LET k == Continuation(Head(queue))
     IN /\ Len(k.store) <= MaxObservers
        /\ outcome' = k.call
        /\ currentState' = k.currentState
        /\ notificationStore' = k.store
  /\ queue' = Tail(queue)
  /\ UNCHANGED <<statesObject, initialStateName, machine, stateStore,
                 stateMachine, hooks, callbacks, pending>>

Next ==
  \/ \E callback \in callbacks \cup {""} : Bind(callback)
  \/ \E callback \in callbacks \cup {""} : Unbind(callback)
  \/ \E ev \in EventNames(statesObject) : Call(ev)
  \/ \E i \in 1..MaxInFlight : DeferredResolve(i)
  \/ Settle

Spec == Init /\ [][Next]_vars

\* the step in which Q takes the continuation at the head of its queue and
\* runs it: a step of Next does this exactly when it is a Settle step
RunHead == queue # <<>> /\ queue' = Tail(queue)

\* Q runs every continuation it has scheduled
FairSpec == InitNames /\ [][Next]_vars /\ WF_queue(RunHead)

(***************************************************************************)
(* Properties.                                                             *)
(***************************************************************************)
Settled(c) == c.status \in {"fulfilled", "rejected"}

\* the transition of call c was committed: setMachineState() accepted it
Committed(c) == c.status = "fulfilled" \/ c.err = "ObserverError"

\* the table declares event ev on state s
Defines(s, ev) ==
  \E i \in 1..Len(statesObject.states) :
    statesObject.states[i].name = s /\ HasHandler(statesObject, i, ev)

Registered == {StateObj(s) : s \in StateNames(statesObject)}

Kinds(trace) == [i \in 1..Len(trace) |-> trace[i].k]

Count(x, seq) == Cardinality({i \in 1..Len(seq) : seq[i] = x})

\* the call records that take part in this step's new call, if it has one
NewCalls ==
  IF Len(pending') + Len(queue') <= Len(pending) + Len(queue) THEN {}
  ELSE IF Len(pending') > Len(pending) THEN {pending'[Len(pending')]}
  ELSE {queue'[Len(queue')]}

\* this step is a call of event ev: it leaves a new call in flight, or the
\* result of a call that nobody took
CallOf(ev) ==
  \/ \E c \in NewCalls : c.event = ev
  \/ outcome'.status = "noop" /\ outcome'.event = ev

\* the event call of this step is a no-op: nothing but its result is left
NoOpStep ==
  /\ UNCHANGED <<currentState, notificationStore, pending, queue>>
  /\ outcome'.status = "noop"
  /\ outcome'.trace = <<>>
  /\ outcome'.notified = <<>>

C2_StringTarget ==
  (Settled(outcome) /\ outcome.value.t = "string"
     /\ outcome.value.n \in StateNames(statesObject))
    => /\ getMachineState = outcome.value.n
       /\ currentState = StateObj(outcome.value.n)
       /\ outcome.status = "fulfilled" => outcome.result = FacadeObj
       /\ outcome.status = "rejected" => outcome.err = "ObserverError"

\* a promise resolved to 'B' and the call issued in A has settled
C2_Witness ==
  /\ outcome.status = "fulfilled"
  /\ outcome.deferred
  /\ outcome.value = Str("B")
  /\ outcome.issuedIn = StateObj("A")
  /\ getMachineState = "B"
  /\ outcome.result = FacadeObj

\* C3 as stated: currentState is always the registry entry of a declared
\* state.
C3_Original ==
  /\ currentState \in Registered
  /\ currentState = StoreGet(stateStore, currentState.n)

\* the handler's value designates a registered state or asks to stay
RECURSIVE Designates(_)
Designates(v) ==
  \/ v \in {Undefined, StoreObj}
  \/ v.t = "string" /\ v.n \in StateNames(statesObject)
  \/ v \in Registered
  \/ v.t = "array" /\ Len(v.e) >= 1 /\ v.e[1].t \in {"string", "state"}
       /\ Designates(v.e[1])

\* C4 as stated: a handler value that designates no registered state makes
\* the call fail with InvalidStateError, hook or no hook, and leaves the
\* state alone: no enter or leave hook, no observer.
C4_Original ==
  (Settled(outcome) /\ ~Designates(outcome.value))
    => /\ outcome.status = "rejected"
       /\ outcome.err = "InvalidStateError"
       /\ currentState = outcome.last
       /\ \A i \in 1..Len(outcome.trace) :
            outcome.trace[i].k \notin {"commit", "enter", "leave", "notify"}

Rank(k) ==
  CASE k = "before" -> 1 [] k = "handler" -> 2 [] k = "after" -> 3
    [] k = "commit" -> 4 [] k = "enter" -> 5 [] k = "leave" -> 6
    [] OTHER -> 7

\* the steps a call with these hooks set takes, when it commits
ExpectedKinds(c) ==
  (IF Hook("onbefore", c.event) \in hooks THEN <<"before">> ELSE <<>>)
  \o <<"handler">>
  \o (IF Hook("onafter", c.event) \in hooks \/ Hook("on", c.event) \in hooks
      THEN <<"after">> ELSE <<>>)
  \o <<"commit">>
  \o (IF Hook("onenter", NameStr(c.next)) \in hooks
         \/ Hook("on", NameStr(c.next)) \in hooks
      THEN <<"enter">> ELSE <<>>)
  \o (IF Hook("onleave", NameStr(c.last)) \in hooks THEN <<"leave">> ELSE <<>>)
  \o [i \in 1..Len(c.notified) |-> "notify"]

\* C5: the steps of one dispatched event come in the order before hook,
\* handler, after hook, update of currentState, enter hook, leave hook,
\* observers; the before and after hooks see the previous state as current,
\* the enter hook, the leave hook and the observers see the next state.
C5_Order ==
  Committed(outcome)
    => /\ Kinds(outcome.trace) = ExpectedKinds(outcome)
       /\ \A i, j \in 1..Len(outcome.trace) :
            i < j => Rank(outcome.trace[i].k) <= Rank(outcome.trace[j].k)
       /\ \A i \in 1..Len(outcome.trace) :
            LET st == outcome.trace[i]
            IN /\ st.k = "before" => st.cur = NameStr(outcome.issuedIn)
               /\ st.k = "after" => /\ st.cur = NameStr(outcome.last)
                                    /\ st.h \in {"onafter", "on"}
               /\ st.k \in {"commit", "enter", "leave", "notify"}
                    => /\ st.cur = NameStr(outcome.next)
                       /\ st.cur = getMachineState

\* every hook is set, an observer is bound, and go has taken A to B
C5_Witness ==
  /\ outcome.status = "fulfilled"
  /\ outcome.last = StateObj("A")
  /\ outcome.next = StateObj("B")
  /\ Kinds(outcome.trace) =
       <<"before", "handler", "after", "commit", "enter", "leave", "notify">>

\* the call of go that A's handler answered with a promise for 'B'
IsGo(c) ==
  /\ c.event = "go"
  /\ c.state = "A"
  /\ c.issuedIn = StateObj("A")
  /\ c.deferred
  /\ c.value = Str("B")

Positions(trace, k) == {i \in 1..Len(trace) : trace[i].k = k}

\* while the call of go is in flight and no other call is, the state is A
C6_StaysA ==
  \A c \in Range(pending) \cup Range(queue) :
    (IsGo(c) /\ c.alone) => getMachineState = "A"

\* when it has settled the state is B, and onenterB and onleaveA, where they
\* are set, have run once each, enter first, both before any observer
C6_Hooks ==
  (Settled(outcome) /\ IsGo(outcome) /\ outcome.alone)
    => LET tr == outcome.trace
       IN /\ getMachineState = "B"
          /\ outcome.last = StateObj("A")
          /\ Cardinality(Positions(tr, "enter")) =
               IF Hook("onenter", "B") \in hooks \/ Hook("on", "B") \in hooks
               THEN 1 ELSE 0
          /\ Cardinality(Positions(tr, "leave")) =
               IF Hook("onleave", "A") \in hooks THEN 1 ELSE 0
          /\ \A i \in Positions(tr, "enter") : tr[i].f = "A" /\ tr[i].t = "B"
          /\ \A i \in Positions(tr, "leave") : tr[i].f = "A" /\ tr[i].t = "B"
          /\ \A i \in Positions(tr, "enter"), j \in Positions(tr, "leave") : i < j
          /\ \A i \in Positions(tr, "enter") \cup Positions(tr, "leave"),
                j \in Positions(tr, "notify") : i < j

\* the promise for 'B' has resolved and the continuation is scheduled
C6_Resolved == \E c \in Range(queue) : IsGo(c)

C6_Done ==
  /\ outcome.status = "fulfilled"
  /\ IsGo(outcome)
  /\ getMachineState = "B"

\* C6: go on A returns a promise that resolves to 'B': the call is pending,
\* the state stays A until the promise resolves, and once it resolves the
\* state becomes B, with onenterB and onleaveA run once each in that order
\* before the observers.
C6_Deferred ==
  /\ [](C6_StaysA /\ C6_Hooks)
  /\ C6_Resolved ~> C6_Done

\* the call has settled, the hooks and an observer have run
C6_Witness ==
  /\ outcome.status = "fulfilled"
  /\ IsGo(outcome)
  /\ outcome.alone
  /\ getMachineState = "B"
  /\ Kinds(outcome.trace) =
       <<"before", "handler", "after", "commit", "enter", "leave", "notify">>

\* C7: a call made while another call's result is pending is guarded and
\* dispatched against the state that is still current: an event that state
\* declares runs that state's handler, any other event is a no-op; and the
\* state changes only in the step in which a pending result settles.
C7_PreTransition ==
  /\ [][\A ev \in EventNames(statesObject) :
          (CallOf(ev) /\ InFlight > 0 /\ currentState \in Registered)
            => IF Defines(currentState.n, ev)
               THEN /\ NewCalls # {}
                    /\ \A c \in NewCalls :
                         c.state = currentState.n /\ c.event = ev
               ELSE NoOpStep]_vars
  /\ [][currentState' # currentState
          => /\ queue # <<>>
             /\ queue' = Tail(queue)
             /\ Settled(outcome')
             /\ outcome'.event = Head(queue).event]_vars

\* back, declared on B only, was called in A while a call bound for B was
\* in flight
C7_Witness ==
  /\ outcome.status = "noop"
  /\ outcome.event = "back"
  /\ currentState = StateObj("A")
  /\ \E c \in Range(pending) \cup Range(queue) :
       c.value = Str("B") /\ c.issuedIn = StateObj("A")

\* C8 as stated: unbind(callback) removes every occurrence of the callback.
C8_Original ==
  [][\A callback \in Callbacks :
       Unbind(callback) => callback \notin Range(notificationStore')]_vars

\* C9: bind appends, so an observer bound n times is in the list n times;
\* a committed transition notifies the list as it stands, each observer as
\* often as it is bound and in the order of binding (unless an observer
\* throws); unbind() empties the list, and an empty list notifies nobody.
C9_Notified ==
  /\ [][\A callback \in Callbacks :
          Bind(callback)
            => /\ Count(callback, notificationStore')
                    = Count(callback, notificationStore) + 1
               /\ notificationStore'
                    = notificationStore \o <<callback>>]_vars
  /\ [][(queue # <<>> /\ queue' = Tail(queue) /\ Committed(outcome')
           /\ "thr" \notin Range(notificationStore))
          => /\ outcome'.notified = notificationStore
             /\ \A callback \in Callbacks :
                  Cardinality({i \in Positions(outcome'.trace, "notify") :
                                 outcome'.trace[i].h = callback})
                    = Count(callback, notificationStore)]_vars
  /\ [][Unbind("") => notificationStore' = <<>>]_vars

\* an observer bound twice was notified twice
C9_Witness ==
  /\ outcome.status = "fulfilled"
  /\ outcome.notified = <<"cb1", "cb1">>

\* C10: a committed transition notifies the observers of the list as it was
\* when the notification began, whatever the observers do to the list
\* meanwhile (unless one of them throws), each with the event name, the
\* previous state's name and the next state's name.
C10_Snapshot ==
  (Committed(outcome) /\ "thr" \notin Range(outcome.snapshot))
    => /\ outcome.notified = outcome.snapshot
       /\ \A i \in Positions(outcome.trace, "notify") :
            /\ outcome.trace[i].e = outcome.event
            /\ outcome.trace[i].f = NameStr(outcome.last)
            /\ outcome.trace[i].t = NameStr(outcome.next)

\* the first observer emptied the list, the second was still notified
C10_Witness ==
  /\ outcome.status = "fulfilled"
  /\ outcome.snapshot = <<"clr", "cb1">>
  /\ outcome.notified = <<"clr", "cb1">>
  /\ notificationStore = <<>>

\* the states of the table that declare event ev
Declaring(ev) == {s \in StateNames(statesObject) : Defines(s, ev)}

\* C11: when an event declared on two or more states is called while a
\* state S that declares it is current, the call is taken by S's own handler,
\* which runs exactly once, and no other state's handler runs, whether S was
\* declared before or after the other states that declare the event.
C11_OwnHandler ==
  [][\A ev \in EventNames(statesObject) :
       (/\ CallOf(ev)
        /\ Cardinality(Declaring(ev)) >= 2
        /\ currentState \in Registered
        /\ currentState.n \in Declaring(ev))
         => /\ NewCalls # {}
            /\ \A c \in NewCalls :
                 /\ c.event = ev
                 /\ c.state = currentState.n
                 /\ Cardinality(Positions(c.trace, "handler")) = 1
                 /\ \A i \in Positions(c.trace, "handler") :
                      c.trace[i].f = currentState.n /\ c.trace[i].e = ev]_vars

\* go, declared on A and then on B, is in flight twice: once taken by A's
\* handler while A was current, once by B's while B was current
C11_Witness ==
  \E c, d \in Range(pending \o queue) :
    /\ c.event = "go" /\ c.state = "A" /\ c.issuedIn = StateObj("A")
    /\ d.event = "go" /\ d.state = "B" /\ d.issuedIn = StateObj("B")

\* C12: when the handler's value is undefined, returned at once or through
\* a promise, and no other event call was in flight during the call, then
\* once the call has settled the state is the one the event was called in
\* and the call resolved to the facade.
C12_UndefinedStays ==
  (Settled(outcome) /\ outcome.value = Undefined /\ outcome.alone)
    => /\ currentState = outcome.issuedIn
       /\ outcome.status = "fulfilled"
       /\ outcome.result = FacadeObj

\* a handler of B resolved its promise with undefined, nothing else in flight
C12_Witness ==
  /\ outcome.status = "fulfilled"
  /\ outcome.value = Undefined
  /\ outcome.deferred
  /\ outcome.alone
  /\ outcome.state = "B"
  /\ HandlerOf("B", outcome.event).to = ""
  /\ currentState = StateObj("B")
  /\ outcome.result = FacadeObj

\* the registered state that s designates, as a name or as the state object
\* of the registry itself (undefined when s designates none)
Designated(s) ==
  IF TypeOf(s) = "string" /\ s.n \in StateNames(statesObject) THEN StateObj(s.n)
  ELSE IF s \in Registered THEN s
  ELSE Undefined

\* the handler's value is an array of l elements whose element 0 designates
\* a registered state
StateArray(v, l) ==
  /\ toString(v) = "[object Array]"
  /\ Len(v.e) = l
  /\ Designated(v.e[1]) # Undefined

\* C13: when the handler's value is a two-element array [s, v] whose s is
\* the name of a registered state or a registered state object, then once
\* the call has settled the state is the one s designates and the call
\* resolved to exactly v.
C13_PairResult ==
  (Settled(outcome) /\ StateArray(outcome.value, 2))
    => /\ outcome.status = "fulfilled"
       /\ outcome.result = outcome.value.e[2]
       /\ currentState = Designated(outcome.value.e[1])

\* [A's state object, 'v'] was returned in B: the call resolved to 'v' in A
C13_Witness ==
  /\ outcome.status = "fulfilled"
  /\ outcome.value = Arr(<<StateObj("A"), Str("v")>>)
  /\ outcome.issuedIn = StateObj("B")
  /\ outcome.result = Str("v")
  /\ currentState = StateObj("A")

\* C14 as stated: when the handler's value is a one-element array [s] whose
\* s designates a registered state, then once the call has settled the state
\* is the one s designates and the call resolved to the facade.
C14_Original ==
  (Settled(outcome) /\ StateArray(outcome.value, 1))
    => /\ outcome.status = "fulfilled"
       /\ currentState = Designated(outcome.value.e[1])
       /\ outcome.result = FacadeObj

\* C15 as stated: a call taken by a bare-string handler E: 'T' ends as the
\* call of a handler that returns the string 'T' ends: in state T when T is
\* a registered state, and rejected with InvalidStateError, the state left
\* as it was, when T names no registered state.
C15_Original ==
  (Settled(outcome) /\ HandlerOf(outcome.state, outcome.event).to # "")
    => LET T == HandlerOf(outcome.state, outcome.event).to
       IN IF T \in StateNames(statesObject)
          THEN outcome.status = "fulfilled" /\ currentState = StateObj(T)
          ELSE /\ outcome.status = "rejected"
               /\ outcome.err = "InvalidStateError"
               /\ currentState = outcome.last

\* the observers of list s up to and including the first one that throws
RECURSIVE UpToThrow(_)
UpToThrow(s) ==
  IF s = <<>> THEN <<>>
  ELSE IF Head(s) = "thr" THEN <<"thr">>
  ELSE <<Head(s)>> \o UpToThrow(Tail(s))

\* C16: when an observer throws during the notification of a transition,
\* the call that triggered it is rejected with the observer's error, the
\* observers after the thrower in the snapshot are not called, and the
\* transition stays committed: the next state is the current one.
C16_ObserverThrows ==
  (Settled(outcome) /\ "thr" \in Range(outcome.snapshot))
    => /\ outcome.status = "rejected"
       /\ outcome.err = "ObserverError"
       /\ outcome.notified = UpToThrow(outcome.snapshot)
       /\ Positions(outcome.trace, "commit") # {}
       /\ currentState = outcome.next
       /\ outcome.value.t = "string" => currentState = StateObj(outcome.value.n)

\* the first of two observers threw while A went to B: the second was not
\* called, the call was rejected and B is current
C16_Witness ==
  /\ outcome.snapshot = <<"thr", "cb1">>
  /\ outcome.notified = <<"thr">>
  /\ outcome.status = "rejected"
  /\ outcome.last = StateObj("A")
  /\ currentState = StateObj("B")

\* the name of the first state in the table's declared order
FirstState == statesObject.states[1].name

\* C17 as stated: right after Stately() returned the facade,
\* getMachineState() is initialStateName when that name is given and names a
\* state of the table, and the name of the first declared state otherwise.
C17_Original ==
  (outcome = Returned /\ statesObject.states # <<>>)
    => getMachineState = IF initialStateName \in StateNames(statesObject)
                         THEN initialStateName
                         ELSE FirstState

\* C18 as stated: Stately() given something that is not a mapping (an
\* array, null, a function that yields no mapping) or a table with no state
\* to start in (an empty table) throws InvalidStateError and returns no
\* facade.
C18_Original ==
  (~IsMapping(statesObject) \/ Yielded(statesObject).states = <<>>)
    => /\ machine = "InvalidStateError"
       /\ stateMachine = <<>>
       /\ outcome = Thrown("InvalidStateError")

\* the steps of a trace in which the after hook or an observer is called
Reports(trace) == Positions(trace, "after") \cup Positions(trace, "notify")

\* C19 as stated: the after hook and every observer of a committed call are
\* told, as the previous state, the state that was current when the event
\* was called, however the calls in flight overlap.
C19_Original ==
  Committed(outcome)
    => \A i \in Reports(outcome.trace) :
         outcome.trace[i].f = NameStr(outcome.issuedIn)

\* C19 as amended: they are told the state that is current when the call
\* settles, the state the transition leaves; that is the state the event was
\* called in whenever no other call was in flight meanwhile.
C19_Amended ==
  [][Committed(outcome')
       => /\ \A i \in Reports(outcome'.trace) :
               outcome'.trace[i].f = NameStr(currentState)
          /\ outcome'.alone => currentState = outcome'.issuedIn]_vars

\* a call of go issued in A settled after another call had moved the machine
\* to B: the after hook and the observer were told B
C19_Witness ==
  /\ outcome.status = "fulfilled"
  /\ ~outcome.alone
  /\ outcome.issuedIn = StateObj("A")
  /\ outcome.last = StateObj("B")
  /\ \E i \in Positions(outcome.trace, "after") : outcome.trace[i].f = "B"
  /\ \E i \in Positions(outcome.trace, "notify") : outcome.trace[i].f = "B"

\* the steps of kind k of a trace name state s as the previous and as the
\* next state
BothAre(trace, k, s) ==
  \A i \in Positions(trace, k) : trace[i].f = s /\ trace[i].t = s

\* C20: a call whose handler's value keeps the machine in its current state
\* S (undefined or the store itself) still commits a transition from S to S:
\* the enter hook of S (onenterS, or onS in its absence) and the leave hook
\* of S, where set, and every observer of the list are each called exactly
\* once, with S as the previous and as the next state.
C20_SelfTransition ==
  [][(Settled(outcome') /\ outcome'.value \in {Undefined, StoreObj})
       => LET S == NameStr(currentState)
              trace == outcome'.trace
          IN /\ outcome'.status = "fulfilled"
             /\ currentState' = currentState
             /\ Cardinality(Positions(trace, "commit")) = 1
             /\ Cardinality(Positions(trace, "enter"))
                  = IF EnterHook(S) # "" THEN 1 ELSE 0
             /\ Cardinality(Positions(trace, "leave"))
                  = IF LeaveHook(S) # "" THEN 1 ELSE 0
             /\ outcome'.notified = notificationStore
             /\ Cardinality(Positions(trace, "notify")) = Len(notificationStore)
             /\ \A k \in {"commit", "enter", "leave", "notify"} :
                  BothAre(trace, k, S)]_vars

\* a handler of A returned undefined: onenterA, onleaveA and the observer
\* were each called once with (go, A, A)
C20_Witness ==
  /\ outcome.status = "fulfilled"
  /\ outcome.value = Undefined
  /\ outcome.last = StateObj("A")
  /\ currentState = StateObj("A")
  /\ \E i \in Positions(outcome.trace, "enter") :
       outcome.trace[i].h = "onenter" /\ outcome.trace[i].f = "A"
  /\ \E i \in Positions(outcome.trace, "leave") : outcome.trace[i].t = "A"
  /\ outcome.notified = <<"cb1">>

====
